---- MODULE Spec2Model ----
(***************************************************************************)
(* NovaCare fall-detection dashboards: the client-side state machines of   *)
(* main.js (dashboard), the caregiver UI, the primary-user UI and the      *)
(* per-role API modules.  One browser page runs one of these scripts; each *)
(* action is one task of the page's event loop (a DOM event handler, a     *)
(* timer callback, a socket event, or the continuation of an await).       *)
(* Console lines and the toasts of NovaBot are output only and are not     *)
(* part of the state; the toasts of main.js and the console.error count of *)
(* the API modules are.  Each specification                                *)
(* below is one page under one part of its environment (socket and timers, *)
(* or the network answering), which keeps the parts' state spaces apart.   *)
(***************************************************************************)
EXTENDS Integers, Sequences, FiniteSets, TLC

\* ---------------------------------------------------------------- bounds
\* playAlertSound calls (fall_alert events handled) per run
MaxAlarms == 2
\* simulateAlert clicks per run
MaxSimulated == 1
\* firings of each polling interval per run
MaxTicks == 1
\* socket connect events per run
MaxConnects == 2
\* clicks on the follow-mode toggle per run
MaxClicks == 2
\* API calls per run of the API modules alone
MaxCalls == 2
\* clicks on the alert list and on its filter buttons per run
MaxAlertClicks == 2
\* clicks on the Refresh button per run
MaxRefresh == 2
\* stopAlarm calls per run
MaxStops == 1
\* clicks on toasts per run
MaxToastClicks == 2
\* clicks on the input-mode buttons per run
MaxModeClicks == 2

\* ------------------------------------------------------ program constants
maxBeeps == 9
HighFreq == 880
LowFreq == 660
MaxActivityItems == 5

VARIABLES
    page,          \* which page's scripts run in this browser tab
    loaded,        \* DOMContentLoaded has been handled
    \* --- main.js
    ioLoaded,      \* typeof io !== 'undefined'
    socket,        \* "null" or "socket"
    isConnected,
    handlers,      \* event names registered with socket.on
    link,          \* the transport: "down" or "up"
    connects,      \* connect events delivered
    subscribed,    \* subscribe_alerts messages emitted
    fallAlerts,    \* fall_alert events the socket delivered
    pollTimers,    \* active polling intervals (names)
    ticks,         \* firings so far, per polling interval
    alarmInterval, \* 0 is null, else the id of the interval last stored
    alarmTimers,   \* ids of the alarm intervals that are active
    beepCount,     \* the closure variable beepCount of each active alarm
    alarmSeq,      \* playAlertSound calls so far
    call,          \* the most recent playAlertSound call: its id, how it ended,
                   \* and whether it cleared an interval that was still active
    beepLog,       \* beeps emitted since the last alarm that started: <<id, freq>>
    notifPerm,     \* Notification.permission
    notifications, \* browser notifications created
    permPrompt,    \* a permission prompt is open
    simulated,     \* simulateAlert clicks so far
    stopCalls,     \* stopAlarm calls so far
    badge,         \* the text of each .notification-badge element
    sidebarBadge,  \* .sidebar .badge text
    kpiAlerts,     \* alerts KPI card text
    activity,      \* .activity-list, first item first
    refreshBtn,    \* the Refresh button: disabled, and what its innerHTML shows
    refreshCalls,  \* refreshDashboard calls awaiting their stats request:
                   \* [seq, original], original being the captured innerHTML
    refreshClicks, \* clicks on the Refresh button
    toasts,        \* the toasts showToast created, in order (see NewToast)
    toastClicks,   \* clicks on toasts
    inflight,      \* requests awaiting their response: [cat, seq]
    issued,        \* requests issued so far, per data category
    settled,       \* the request settled last and how: [cat, seq, outcome]
    display,       \* per data category, the requests whose payloads were put on
                   \* display, in order; the last one is what the page shows
    \* --- caregiver UI
    currentFilter,
    alertItems,    \* #alertsList: per alert id, "none", "read" or "unread" as rendered
    clickHandlers, \* ids of the rendered items that carry a click listener
    clickLog,      \* clicks on rendered alert items: [id, unread]
    markSent,      \* alert ids POSTed to /alerts/<id>/read, in order
    alertsSent,    \* the severity of each getAlerts request, in order
    filterClicks,  \* clicks on the .alert-filter buttons
    \* --- primary-user UI
    followModeActive,
    followModeUI,  \* the toggle as drawn by updateFollowModeUI: TRUE is 'Following active'
    toggleSent,    \* bodies POSTed to /navigation/follow-mode, in order
    currentInputMode,
    highlighted,   \* the .input-mode-btn buttons drawn as active, by data-mode
    modeSent,      \* modes POSTed to /input-mode, in order
    \* --- API modules
    fetchCalls,    \* _fetch calls made
    fetchApi,      \* the module whose _fetch ran last
    fetchNet,      \* what the network handed that call
    fetchResult,   \* how that call ended
    errorsLogged   \* console.error('API Error:', ...) lines written

btnVars == <<refreshBtn, refreshCalls, refreshClicks>>

toastVars == <<toasts, toastClicks>>

dashVars == <<ioLoaded, socket, isConnected, handlers, link, connects, subscribed,
              fallAlerts,
              alarmInterval, alarmTimers, beepCount, alarmSeq, call, beepLog,
              notifPerm, notifications, permPrompt, simulated, stopCalls, badge,
              sidebarBadge, kpiAlerts, activity, btnVars, toastVars>>

netVars == <<inflight, issued, settled, display>>

cgVars == <<currentFilter, alertItems, clickHandlers, clickLog, markSent,
            alertsSent, filterClicks>>

inputVars == <<currentInputMode, highlighted, modeSent>>

puVars == <<followModeActive, followModeUI, toggleSent, inputVars>>

apiVars == <<fetchCalls, fetchApi, fetchNet, fetchResult, errorsLogged>>

vars == <<page, loaded, pollTimers, ticks, dashVars, netVars, cgVars, puVars, apiVars>>

Null == "null"

\* ------------------------------------------------------------- requests
DashCats == {"stats", "chart"}
CaregiverCats == {"status", "location", "battery", "alerts"}
\* POST /alerts/<id>/read
CaregiverPosts == {"markRead"}
PrimaryCats == {"inputMode", "medication", "follow", "toggle", "feedback"}
\* POST /input-mode and POST /visual-feedback
PrimaryPosts == {"setMode", "sendFeedback"}
Cats == DashCats \cup CaregiverCats \cup CaregiverPosts \cup PrimaryCats \cup PrimaryPosts

\* the setInterval timers of the three pages, named by what they refresh
DashPolls == {"updateTime", "stats"}
CaregiverPolls == {"status", "location", "battery", "alerts"}
PrimaryPolls == {"feedback", "medication"}
PollNames == DashPolls \cup CaregiverPolls \cup PrimaryPolls

\* fetch(): a request of each category in cs joins the requests in flight
IssueAll(cs) ==
    /\ inflight' = inflight \cup {[cat |-> c, seq |-> issued[c] + 1] : c \in cs}
    /\ issued' = [c \in Cats |-> IF c \in cs THEN issued[c] + 1 ELSE issued[c]]

\* What the network hands back to fetch(): a rejection, or a response with a
\* status and a body that parses as JSON or does not.
Statuses == {200, 299, 300, 404, 500}

\* a body is text that does not parse as JSON, or the envelope {success: ...}
Bodies == {"invalid", "success", "failure"}

NetOutcomes ==
    {[kind |-> "netfail", status |-> 0, body |-> "invalid"]}
    \cup [kind : {"response"}, status : Statuses, body : Bodies]

\* response.ok
ResponseOk(status) == status >= 200 /\ status <= 299

\* ------------------------------------------------------------ main.js
SocketEvents == {"connect", "disconnect", "fall_alert", "detection_update", "system_status"}

\* initSocketIO without the typeof io check
initSocketIOUnchecked ==
    /\ socket' = "socket"
    /\ handlers' = SocketEvents

\* initSocketIO: the socket and the handlers it registers
initSocketIO ==
    IF ~ioLoaded
    THEN /\ socket' = socket
         /\ handlers' = handlers
    ELSE /\ socket' = "socket"
         /\ handlers' = SocketEvents

\* document.addEventListener('DOMContentLoaded', ...)
DOMContentLoaded ==
    /\ page = "dashboard"
    /\ ~loaded
    /\ loaded' = TRUE
    /\ initSocketIO
    /\ IssueAll({"chart", "stats"})
    /\ pollTimers' = pollTimers \cup {"updateTime", "stats"}
    /\ UNCHANGED <<settled, display>>
    /\ UNCHANGED <<cgVars, puVars, apiVars, stopCalls, btnVars, toastVars, page, ticks, ioLoaded, isConnected, link, connects, subscribed, fallAlerts,
                   alarmInterval, alarmTimers, beepCount, alarmSeq, call, beepLog,
                   notifPerm, notifications, permPrompt, simulated, badge,
                   sidebarBadge, kpiAlerts, activity>>

\* ---- element texts that hold counts
\* textContent: the decimal digits of a number, or any other text ('',
\* 'undefined', 'NaN', ...)
Num(n) == [kind |-> "number", val |-> n]
NonNumeric == [kind |-> "text", val |-> 0]

\* the numbers of JavaScript that occur here: a natural number or NaN
NaN == [nan |-> TRUE, val |-> 0]
Number(n) == [nan |-> FALSE, val |-> n]

\* parseInt(text)
ParseInt(text) == IF text.kind = "number" THEN Number(text.val) ELSE NaN

\* x || 0: NaN and 0 are falsy
OrZero(x) == IF x.nan \/ x.val = 0 THEN Number(0) ELSE x

\* x + 1
PlusOne(x) == IF x.nan THEN NaN ELSE Number(x.val + 1)

\* element.textContent = x: the number as a string
ToText(x) == IF x.nan THEN NonNumeric ELSE Num(x.val)

\* const currentValue = parseInt(el.textContent) || 0; el.textContent = currentValue + 1
Increment(text) == ToText(PlusOne(OrZero(ParseInt(text))))

\* the .notification-badge elements of the page
NotificationBadges == {"navbar", "menu"}

\* ---- toasts
ToastDelay == 4000
SlideOut == 300
LegacyToastDelay == 3000

\* a toast as showToast leaves it: appended to the container, its click
\* listener set and its auto-remove timer started.  age is the time since then
\* in ms; timers holds the pending setTimeout calls of its closures in the
\* order they were made, each with the age at which it is due
NewToast(delay) ==
    [age |-> 0, inContainer |-> TRUE,
     timers |-> << [kind |-> "auto", due |-> delay] >>,
     clicks |-> 0, removed |-> 0, removedAt |-> 0, removedBy |-> "none",
     failed |-> 0]

\* showToast (main.js)
showToast == toasts' = Append(toasts, NewToast(ToastDelay))

\* the same in caregiver/api.js, which has no || 0:
\* const currentValue = parseInt(el.textContent); el.textContent = currentValue + 1
LegacyIncrement(text) == ToText(PlusOne(ParseInt(text)))

\* updateNotificationBadge without || 0
updateNotificationBadgeNoOrZero ==
    /\ badge' = [b \in NotificationBadges |-> LegacyIncrement(badge[b])]
    /\ sidebarBadge' = LegacyIncrement(sidebarBadge)

\* updateNotificationBadge: every .notification-badge, then the sidebar badge
updateNotificationBadge ==
    /\ badge' = [b \in NotificationBadges |-> Increment(badge[b])]
    /\ sidebarBadge' = Increment(sidebarBadge)

\* addActivityItem that lets a sixth item stay
addActivityItemKeepSix(title) ==
    LET items == <<title>> \o activity
    IN activity' = IF Len(items) > MaxActivityItems + 1
                   THEN SubSeq(items, 1, Len(items) - 1)
                   ELSE items

\* addActivityItem: insert first, then drop the last item beyond five
addActivityItem(title) ==
    LET items == <<title>> \o activity
    IN activity' = IF Len(items) > MaxActivityItems
                   THEN SubSeq(items, 1, Len(items) - 1)
                   ELSE items

\* clearInterval(id) on the set of active alarm intervals
ClearInterval(active, id) == active \ {id}

\* the frequency of the beep a tick emits when the closure holds count n
SirenFreq(n) == IF n % 2 = 0 THEN HighFreq ELSE LowFreq

\* playAlertSound with the old alarm left running (line 611 dropped)
playAlertSoundNoClear(audio) ==
    LET id == alarmSeq + 1
    IN /\ alarmSeq' = id
       /\ IF ~audio
          THEN /\ call' = [id |-> id, state |-> "failed", cleared |-> FALSE]
               /\ UNCHANGED <<alarmInterval, alarmTimers, beepCount, beepLog,
                              notifications, permPrompt>>
          ELSE /\ alarmTimers' = alarmTimers \cup {id}
               /\ beepCount' = [t \in alarmTimers' |-> IF t = id THEN 1 ELSE beepCount[t]]
               /\ beepLog' = << <<id, HighFreq>> >>
               /\ alarmInterval' = id
               /\ call' = [id |-> id, state |-> "playing", cleared |-> FALSE]
               /\ notifications' = IF notifPerm = "granted"
                                   THEN notifications + 1 ELSE notifications
               /\ permPrompt' = IF notifPerm = "default" THEN TRUE ELSE permPrompt

\* playAlertSound: audio is whether the AudioContext can be constructed; when
\* it cannot, the constructor throws and the catch block ends the call
playAlertSound(audio) ==
    LET id == alarmSeq + 1
        kept == IF alarmInterval # 0
                THEN ClearInterval(alarmTimers, alarmInterval)
                ELSE alarmTimers
    IN /\ alarmSeq' = id
       /\ IF ~audio
          THEN /\ call' = [id |-> id, state |-> "failed", cleared |-> FALSE]
               /\ UNCHANGED <<alarmInterval, alarmTimers, beepCount, beepLog,
                              notifications, permPrompt>>
          ELSE /\ alarmTimers' = kept \cup {id}
               /\ beepCount' = [t \in alarmTimers' |-> IF t = id THEN 1 ELSE beepCount[t]]
               /\ beepLog' = << <<id, HighFreq>> >>
               /\ alarmInterval' = id
               /\ call' = [id |-> id, state |-> "playing",
                           cleared |-> alarmInterval \in alarmTimers]
               \* Notification undefined throws here, after the alarm started
               /\ notifications' = IF notifPerm = "granted"
                                   THEN notifications + 1 ELSE notifications
               /\ permPrompt' = IF notifPerm = "default" THEN TRUE ELSE permPrompt

\* socket.on('fall_alert') -> handleFallAlert
HandleFallAlert ==
    /\ page = "dashboard"
    /\ showToast
    /\ "fall_alert" \in handlers
    /\ link = "up"
    /\ alarmSeq < MaxAlarms
    /\ fallAlerts' = fallAlerts + 1
    /\ \E audio \in BOOLEAN : playAlertSound(audio)
    /\ updateNotificationBadge
    /\ kpiAlerts' = Increment(kpiAlerts)
    /\ addActivityItem("Fall Detected")
    /\ UNCHANGED <<cgVars, puVars, apiVars, stopCalls, btnVars, toastClicks, page, loaded, pollTimers, ticks, ioLoaded, socket, isConnected,
                   handlers, link, connects, subscribed, notifPerm, simulated,
                   netVars>>

\* the interval callback with > for >= (one beep too many)
AlarmTickOffByOne(t) ==
    /\ page = "dashboard"
    /\ t \in alarmTimers
    /\ IF beepCount[t] > maxBeeps
       THEN /\ alarmTimers' = ClearInterval(alarmTimers, alarmInterval)
            /\ alarmInterval' = 0
            /\ beepCount' = [u \in alarmTimers' |-> beepCount[u]]
            /\ call' = IF call.id = t /\ call.state = "playing"
                       THEN [call EXCEPT !.state = "finished"] ELSE call
            /\ beepLog' = beepLog
       ELSE /\ beepLog' = Append(beepLog, <<t, SirenFreq(beepCount[t])>>)
            /\ beepCount' = [beepCount EXCEPT ![t] = @ + 1]
            /\ UNCHANGED <<alarmTimers, alarmInterval, call>>
    /\ UNCHANGED <<cgVars, puVars, apiVars, stopCalls, btnVars, toastVars, page, loaded, pollTimers, ticks, ioLoaded, socket, isConnected,
                   handlers, link, connects, subscribed, fallAlerts, alarmSeq, notifPerm,
                   permPrompt, notifications, simulated, badge, sidebarBadge,
                   kpiAlerts, activity, netVars>>

\* the callback of the interval playAlertSound call t started, every 200 ms
AlarmTick(t) ==
    /\ page = "dashboard"
    /\ t \in alarmTimers
    /\ IF beepCount[t] >= maxBeeps
       THEN /\ alarmTimers' = ClearInterval(alarmTimers, alarmInterval)
            /\ alarmInterval' = 0
            /\ beepCount' = [u \in alarmTimers' |-> beepCount[u]]
            /\ call' = IF call.id = t /\ call.state = "playing"
                       THEN [call EXCEPT !.state = "finished"] ELSE call
            /\ beepLog' = beepLog
       ELSE /\ beepLog' = Append(beepLog, <<t, SirenFreq(beepCount[t])>>)
            /\ beepCount' = [beepCount EXCEPT ![t] = @ + 1]
            /\ UNCHANGED <<alarmTimers, alarmInterval, call>>
    /\ UNCHANGED <<cgVars, puVars, apiVars, stopCalls, btnVars, toastVars, page, loaded, pollTimers, ticks, ioLoaded, socket, isConnected,
                   handlers, link, connects, subscribed, fallAlerts, alarmSeq, notifPerm,
                   permPrompt, notifications, simulated, badge, sidebarBadge,
                   kpiAlerts, activity, netVars>>

\* stopAlarm that drops the id without clearing the interval
stopAlarmNoClear ==
    /\ page = "dashboard"
    /\ loaded
    /\ stopCalls < MaxStops
    /\ stopCalls' = stopCalls + 1
    /\ alarmInterval' = 0
    /\ UNCHANGED <<alarmTimers, beepCount, call>>
    /\ UNCHANGED <<cgVars, puVars, apiVars, btnVars, toastVars, page, loaded, pollTimers, ticks, ioLoaded, socket, isConnected,
                   handlers, link, connects, subscribed, fallAlerts, alarmSeq, beepLog,
                   notifPerm, permPrompt, notifications, simulated, badge,
                   sidebarBadge, kpiAlerts, activity, netVars>>

\* stopAlarm
stopAlarm ==
    /\ page = "dashboard"
    /\ loaded
    /\ stopCalls < MaxStops
    /\ stopCalls' = stopCalls + 1
    /\ IF alarmInterval # 0
       THEN /\ alarmTimers' = ClearInterval(alarmTimers, alarmInterval)
            /\ alarmInterval' = 0
            /\ beepCount' = [u \in alarmTimers' |-> beepCount[u]]
            /\ call' = IF call.id = alarmInterval /\ call.state = "playing"
                       THEN [call EXCEPT !.state = "stopped"] ELSE call
       ELSE UNCHANGED <<alarmTimers, alarmInterval, beepCount, call>>
    /\ UNCHANGED <<cgVars, puVars, apiVars, btnVars, toastVars, page, loaded, pollTimers, ticks, ioLoaded, socket, isConnected,
                   handlers, link, connects, subscribed, fallAlerts, alarmSeq, beepLog,
                   notifPerm, permPrompt, notifications, simulated, badge,
                   sidebarBadge, kpiAlerts, activity, netVars>>

\* the user answers the prompt Notification.requestPermission() opened
AnswerPermission ==
    /\ page = "dashboard"
    /\ permPrompt
    /\ permPrompt' = FALSE
    /\ notifPerm' \in {"granted", "denied", "default"}
    /\ UNCHANGED <<cgVars, puVars, apiVars, stopCalls, btnVars, toastVars, page, loaded, pollTimers, ticks, ioLoaded, socket, isConnected,
                   handlers, link, connects, subscribed, fallAlerts, alarmInterval, alarmTimers,
                   beepCount, alarmSeq, call, beepLog, notifications, simulated,
                   badge, sidebarBadge, kpiAlerts, activity, netVars>>

\* simulateAlert with the alarm of handleFallAlert added
simulateAlertWithSound ==
    /\ page = "dashboard"
    /\ showToast
    /\ loaded
    /\ simulated < MaxSimulated
    /\ alarmSeq < MaxAlarms
    /\ simulated' = simulated + 1
    /\ playAlertSound(TRUE)
    /\ updateNotificationBadge
    /\ kpiAlerts' = Increment(kpiAlerts)
    /\ addActivityItem("Simulated Alert")
    /\ UNCHANGED <<cgVars, puVars, apiVars, stopCalls, btnVars, toastClicks, page, loaded, pollTimers, ticks, ioLoaded, socket, isConnected,
                   handlers, link, connects, subscribed, fallAlerts, notifPerm, netVars>>

\* simulateAlert (the Simulate Alert button)
simulateAlert ==
    /\ page = "dashboard"
    /\ showToast
    /\ loaded
    /\ simulated < MaxSimulated
    /\ simulated' = simulated + 1
    /\ updateNotificationBadge
    /\ kpiAlerts' = Increment(kpiAlerts)
    /\ addActivityItem("Simulated Alert")
    /\ UNCHANGED <<cgVars, puVars, apiVars, stopCalls, btnVars, toastClicks, page, loaded, pollTimers, ticks, ioLoaded, socket, isConnected,
                   handlers, link, connects, subscribed, fallAlerts, alarmInterval, alarmTimers,
                   beepCount, alarmSeq, call, beepLog, notifPerm, permPrompt,
                   notifications, netVars>>

\* socket.on('connect')
SocketConnect ==
    /\ page = "dashboard"
    /\ showToast
    /\ "connect" \in handlers
    /\ link = "down"
    /\ connects < MaxConnects
    /\ link' = "up"
    /\ connects' = connects + 1
    /\ isConnected' = TRUE
    /\ subscribed' = subscribed + 1
    /\ UNCHANGED <<cgVars, puVars, apiVars, stopCalls, btnVars, toastClicks, page, loaded, pollTimers, ticks, ioLoaded, socket, handlers,
                   fallAlerts, alarmInterval, alarmTimers, beepCount, alarmSeq, call, beepLog,
                   notifPerm, permPrompt, notifications, simulated, badge,
                   sidebarBadge, kpiAlerts, activity, netVars>>

\* the disconnect handler that leaves isConnected as it is
SocketDisconnectKeepsFlag ==
    /\ page = "dashboard"
    /\ showToast
    /\ "disconnect" \in handlers
    /\ link = "up"
    /\ link' = "down"
    /\ UNCHANGED <<cgVars, puVars, apiVars, stopCalls, btnVars, toastClicks, page, loaded, pollTimers, ticks, ioLoaded, socket, handlers,
                   isConnected, connects, subscribed, fallAlerts, alarmInterval, alarmTimers, beepCount,
                   alarmSeq, call, beepLog, notifPerm, permPrompt, notifications,
                   simulated, badge, sidebarBadge, kpiAlerts, activity, netVars>>

\* socket.on('disconnect')
SocketDisconnect ==
    /\ page = "dashboard"
    /\ showToast
    /\ "disconnect" \in handlers
    /\ link = "up"
    /\ link' = "down"
    /\ isConnected' = FALSE
    /\ UNCHANGED <<cgVars, puVars, apiVars, stopCalls, btnVars, toastClicks, page, loaded, pollTimers, ticks, ioLoaded, socket, handlers,
                   connects, subscribed, fallAlerts, alarmInterval, alarmTimers, beepCount,
                   alarmSeq, call, beepLog, notifPerm, permPrompt, notifications,
                   simulated, badge, sidebarBadge, kpiAlerts, activity, netVars>>

\* what updateKPICard can write to the alerts KPI card: the digits of
\* data.unacknowledged_alerts, or 'undefined' when the field is missing
AlertCounts == {Num(0), Num(1), NonNumeric}

\* how loadDashboardStats ends on what fetch hands back
StatsOutcome(net) ==
    IF net.kind = "response" /\ ResponseOk(net.status) /\ net.body # "invalid"
    THEN "success" ELSE "throw"

\* loadDashboardStats after its await: the response r of a stats request
\* updates the KPI cards, or the catch block logs; the promise is fulfilled
\* either way
StatsResponse(r, net) ==
    /\ page = "dashboard"
    /\ r \in inflight
    /\ r.cat = "stats"
    /\ settled' = [cat |-> r.cat, seq |-> r.seq, outcome |-> StatsOutcome(net)]
    /\ IF StatsOutcome(net) = "success"
       THEN /\ \E n \in AlertCounts : kpiAlerts' = n
            /\ display' = [display EXCEPT !["stats"] = Append(@, r.seq)]
       ELSE UNCHANGED <<kpiAlerts, display>>

\* loadDashboardStats called at page load or by the 30-second interval
loadDashboardStats(r, net) ==
    /\ StatsResponse(r, net)
    /\ \A c \in refreshCalls : c.seq # r.seq
    /\ inflight' = inflight \ {r}
    /\ UNCHANGED <<cgVars, puVars, apiVars, stopCalls, btnVars, toastVars, page, loaded, pollTimers, ticks, ioLoaded, socket, isConnected,
                   handlers, link, connects, subscribed, fallAlerts, alarmInterval, alarmTimers,
                   beepCount, alarmSeq, call, beepLog, notifPerm, permPrompt,
                   notifications, simulated, badge, sidebarBadge, activity, issued>>

\* refreshDashboard (the Refresh button, which takes no click while disabled)
\* up to loadDashboardStats' await
refreshDashboard ==
    /\ page = "dashboard"
    /\ loaded
    /\ ~refreshBtn.disabled
    /\ refreshClicks < MaxRefresh
    /\ refreshClicks' = refreshClicks + 1
    /\ showToast
    /\ refreshCalls' = refreshCalls \cup
                          {[seq |-> issued["stats"] + 1, original |-> refreshBtn.content]}
    /\ refreshBtn' = [disabled |-> TRUE, content |-> "spinner"]
    /\ IssueAll({"stats"})
    /\ UNCHANGED <<cgVars, puVars, apiVars, stopCalls, toastClicks, page, loaded, pollTimers, ticks, ioLoaded, socket, isConnected,
                   handlers, link, connects, subscribed, fallAlerts, alarmInterval, alarmTimers,
                   beepCount, alarmSeq, call, beepLog, notifPerm, permPrompt,
                   notifications, simulated, badge, sidebarBadge, kpiAlerts, activity,
                   settled, display>>

\* the then callback that restores the button only when the stats were loaded
refreshDashboardThenOnSuccess(r, net) ==
    /\ StatsResponse(r, net)
    /\ \E c \in refreshCalls :
          /\ c.seq = r.seq
          /\ refreshCalls' = refreshCalls \ {c}
          /\ refreshBtn' = IF StatsOutcome(net) = "success"
                           THEN [disabled |-> FALSE, content |-> c.original]
                           ELSE refreshBtn
    /\ inflight' = (inflight \ {r}) \cup {[cat |-> "chart", seq |-> issued["chart"] + 1]}
    /\ issued' = [issued EXCEPT !["chart"] = @ + 1]
    /\ showToast
    /\ UNCHANGED <<cgVars, puVars, apiVars, stopCalls, refreshClicks, toastClicks, page, loaded, pollTimers, ticks, ioLoaded, socket, isConnected,
                   handlers, link, connects, subscribed, fallAlerts, alarmInterval, alarmTimers,
                   beepCount, alarmSeq, call, beepLog, notifPerm, permPrompt,
                   notifications, simulated, badge, sidebarBadge, activity>>

\* refreshDashboard after the stats request settled: loadDashboardStats ends,
\* its promise is fulfilled and the then callback runs (the catch callback,
\* which restores the button the same way, has no rejection to run on)
refreshDashboardThen(r, net) ==
    /\ StatsResponse(r, net)
    /\ \E c \in refreshCalls :
          /\ c.seq = r.seq
          /\ refreshCalls' = refreshCalls \ {c}
          /\ refreshBtn' = [disabled |-> FALSE, content |-> c.original]
    /\ inflight' = (inflight \ {r}) \cup {[cat |-> "chart", seq |-> issued["chart"] + 1]}
    /\ issued' = [issued EXCEPT !["chart"] = @ + 1]
    /\ showToast
    /\ UNCHANGED <<cgVars, puVars, apiVars, stopCalls, refreshClicks, toastClicks, page, loaded, pollTimers, ticks, ioLoaded, socket, isConnected,
                   handlers, link, connects, subscribed, fallAlerts, alarmInterval, alarmTimers,
                   beepCount, alarmSeq, call, beepLog, notifPerm, permPrompt,
                   notifications, simulated, badge, sidebarBadge, activity>>

\* how loadChartData ends: a non-2xx response returns without throwing
ChartOutcome(net) ==
    IF net.kind = "response" /\ ~ResponseOk(net.status) THEN "nosuccess"
    ELSE IF net.kind = "response" /\ net.body # "invalid" THEN "success"
    ELSE "throw"

\* loadChartData after its await
loadChartData(r, net) ==
    /\ page = "dashboard"
    /\ r \in inflight
    /\ r.cat = "chart"
    /\ inflight' = inflight \ {r}
    /\ settled' = [cat |-> r.cat, seq |-> r.seq, outcome |-> ChartOutcome(net)]
    /\ display' = IF ChartOutcome(net) = "success"
                  THEN [display EXCEPT !["chart"] = Append(@, r.seq)] ELSE display
    /\ UNCHANGED <<cgVars, puVars, apiVars, stopCalls, btnVars, toastVars, page, loaded, pollTimers, ticks, dashVars, issued>>

\* setInterval(loadDashboardStats, 30000) with the interval cleared after a firing
StatsTickOnce ==
    /\ page = "dashboard"
    /\ "stats" \in pollTimers
    /\ ticks["stats"] < MaxTicks
    /\ ticks' = [ticks EXCEPT !["stats"] = @ + 1]
    /\ IssueAll({"stats"})
    /\ pollTimers' = pollTimers \ {"stats"}
    /\ UNCHANGED <<cgVars, puVars, apiVars, stopCalls, btnVars, toastVars, page, loaded, dashVars, settled, display>>

\* setInterval(loadDashboardStats, 30000) fires
StatsTick ==
    /\ page = "dashboard"
    /\ "stats" \in pollTimers
    /\ ticks["stats"] < MaxTicks
    /\ ticks' = [ticks EXCEPT !["stats"] = @ + 1]
    /\ IssueAll({"stats"})
    /\ UNCHANGED <<cgVars, puVars, apiVars, stopCalls, btnVars, toastVars, page, loaded, pollTimers, dashVars, settled, display>>

\* setInterval(updateTime, 60000) fires
UpdateTimeTick ==
    /\ page = "dashboard"
    /\ "updateTime" \in pollTimers
    /\ ticks["updateTime"] < MaxTicks
    /\ ticks' = [ticks EXCEPT !["updateTime"] = @ + 1]
    /\ UNCHANGED <<cgVars, puVars, apiVars, stopCalls, btnVars, toastVars, page, loaded, pollTimers, dashVars, netVars>>

\* ------------------------------------------------------- toasts
\* the smallest number of a non-empty set
Min(S) == CHOOSE x \in S : \A y \in S : x <= y

\* s without its j-th element
RemoveAt(s, j) == SubSeq(s, 1, j - 1) \o SubSeq(s, j + 1, Len(s))

\* the ages at which toast t has a timer due
Dues(t) == {t.timers[j].due : j \in 1..Len(t.timers)}

\* the pending timer of t that runs next: of those due now, the one set first
FirstDue(t) == Min({j \in 1..Len(t.timers) : t.timers[j].due = t.age})

\* moments at which a user may click a toast whose auto-remove delay is delay:
\* at once, a slide-out before the auto-remove timer, shortly before it, with
\* it, and during its slide-out
ClickMoments(delay) == {0, delay - SlideOut, delay - 100, delay, delay + 100}

\* toastContainer.removeChild(toast) from the timer of the given kind: the
\* toast leaves the container, or, when it is not there, NotFoundError is thrown
RemoveChild(t, kind) ==
    IF t.inContainer
    THEN [t EXCEPT !.inContainer = FALSE, !.removed = @ + 1,
                   !.removedAt = t.age, !.removedBy = kind]
    ELSE [t EXCEPT !.failed = @ + 1]

\* the click listener of a toast: slideOut, and a timer that removes it
ClickToast(t) ==
    [t EXCEPT !.clicks = @ + 1,
              !.timers = Append(@, [kind |-> "click", due |-> t.age + SlideOut])]

\* the auto-remove timer: if the toast is still there, slideOut and a second
\* timer; that second timer removes the toast if it is still there
AutoTimer(t, tm) ==
    IF tm.kind = "auto"
    THEN IF t.inContainer
         THEN [t EXCEPT !.timers = Append(@, [kind |-> "remove", due |-> t.age + SlideOut])]
         ELSE t
    ELSE IF t.inContainer THEN RemoveChild(t, "remove") ELSE t

\* the callback of the timer of t that is due: main.js checks contains() in
\* the click timer too
RunTimer(t) ==
    LET j == FirstDue(t)
        tm == t.timers[j]
        u == [t EXCEPT !.timers = RemoveAt(@, j)]
    IN IF tm.kind = "click"
       THEN IF u.inContainer THEN RemoveChild(u, "click") ELSE u
       ELSE AutoTimer(u, tm)

\* the same for the showToast of caregiver/api.js, whose click timer calls
\* removeChild without a check
LegacyRunTimer(t) ==
    LET j == FirstDue(t)
        tm == t.timers[j]
        u == [t EXCEPT !.timers = RemoveAt(@, j)]
    IN IF tm.kind = "click"
       THEN RemoveChild(u, "click")
       ELSE AutoTimer(u, tm)

ToastPages == {"dashboard", "legacy"}

\* a click on toast i, which is on screen
ToastClick(i) ==
    /\ page = "dashboard"
    /\ i \in 1..Len(toasts)
    /\ toasts[i].inContainer
    /\ toastClicks < MaxToastClicks
    /\ toastClicks' = toastClicks + 1
    /\ toasts' = [toasts EXCEPT ![i] = ClickToast(@)]
    /\ UNCHANGED <<cgVars, puVars, apiVars, stopCalls, btnVars, page, loaded, pollTimers, ticks, ioLoaded, socket, isConnected,
                   handlers, link, connects, subscribed, fallAlerts, alarmInterval, alarmTimers,
                   beepCount, alarmSeq, call, beepLog, notifPerm, permPrompt,
                   notifications, simulated, badge, sidebarBadge, kpiAlerts, activity,
                   netVars>>

\* the timers of toast i with the contains() check of the click timer left out
ToastTimerUnchecked(i) ==
    /\ page = "dashboard"
    /\ i \in 1..Len(toasts)
    /\ toasts[i].age \in Dues(toasts[i])
    /\ toasts' = [toasts EXCEPT ![i] = LegacyRunTimer(@)]
    /\ UNCHANGED <<cgVars, puVars, apiVars, stopCalls, btnVars, toastClicks, page, loaded, pollTimers, ticks, ioLoaded, socket, isConnected,
                   handlers, link, connects, subscribed, fallAlerts, alarmInterval, alarmTimers,
                   beepCount, alarmSeq, call, beepLog, notifPerm, permPrompt,
                   notifications, simulated, badge, sidebarBadge, kpiAlerts, activity,
                   netVars>>

\* a timer of toast i that is due runs its callback
ToastTimer(i) ==
    /\ page = "dashboard"
    /\ i \in 1..Len(toasts)
    /\ toasts[i].age \in Dues(toasts[i])
    /\ toasts' = [toasts EXCEPT ![i] = RunTimer(@)]
    /\ UNCHANGED <<cgVars, puVars, apiVars, stopCalls, btnVars, toastClicks, page, loaded, pollTimers, ticks, ioLoaded, socket, isConnected,
                   handlers, link, connects, subscribed, fallAlerts, alarmInterval, alarmTimers,
                   beepCount, alarmSeq, call, beepLog, notifPerm, permPrompt,
                   notifications, simulated, badge, sidebarBadge, kpiAlerts, activity,
                   netVars>>

\* time passes for toast i, up to its next timer or the next click moment;
\* a timer that is due runs before time moves on
ToastAdvance(i) ==
    /\ page \in ToastPages
    /\ i \in 1..Len(toasts)
    /\ toasts[i].timers # <<>>
    /\ toasts[i].age \notin Dues(toasts[i])
    /\ LET delay == IF page = "dashboard" THEN ToastDelay ELSE LegacyToastDelay
           later == {x \in Dues(toasts[i]) \cup ClickMoments(delay) : x > toasts[i].age}
       IN toasts' = [toasts EXCEPT ![i].age = Min(later)]
    /\ UNCHANGED <<cgVars, puVars, apiVars, stopCalls, btnVars, toastClicks, page, loaded, pollTimers, ticks, ioLoaded, socket, isConnected,
                   handlers, link, connects, subscribed, fallAlerts, alarmInterval, alarmTimers,
                   beepCount, alarmSeq, call, beepLog, notifPerm, permPrompt,
                   notifications, simulated, badge, sidebarBadge, kpiAlerts, activity,
                   netVars>>

\* ------------------------------- the dashboard script of caregiver/api.js
\* showToast (caregiver/api.js)
legacyShowToast == toasts' = Append(toasts, NewToast(LegacyToastDelay))

\* document.addEventListener('DOMContentLoaded', ...) of caregiver/api.js
LegacyDOMContentLoaded ==
    /\ page = "legacy"
    /\ ~loaded
    /\ loaded' = TRUE
    /\ pollTimers' = pollTimers \cup {"updateTime"}
    /\ UNCHANGED <<page, ticks, dashVars, netVars, cgVars, puVars, apiVars>>

\* simulateAlert of caregiver/api.js
LegacySimulateAlert ==
    /\ page = "legacy"
    /\ loaded
    /\ simulated < MaxSimulated
    /\ simulated' = simulated + 1
    /\ legacyShowToast
    /\ kpiAlerts' = LegacyIncrement(kpiAlerts)
    /\ badge' = [b \in NotificationBadges |-> LegacyIncrement(badge[b])]
    /\ sidebarBadge' = LegacyIncrement(sidebarBadge)
    /\ UNCHANGED <<cgVars, puVars, apiVars, stopCalls, btnVars, toastClicks, page, loaded, pollTimers, ticks, ioLoaded, socket, isConnected,
                   handlers, link, connects, subscribed, fallAlerts, alarmInterval, alarmTimers,
                   beepCount, alarmSeq, call, beepLog, notifPerm, permPrompt,
                   notifications, activity, netVars>>

\* a click on toast i of the legacy page
LegacyToastClick(i) ==
    /\ page = "legacy"
    /\ i \in 1..Len(toasts)
    /\ toasts[i].inContainer
    /\ toastClicks < MaxToastClicks
    /\ toastClicks' = toastClicks + 1
    /\ toasts' = [toasts EXCEPT ![i] = ClickToast(@)]
    /\ UNCHANGED <<cgVars, puVars, apiVars, stopCalls, btnVars, page, loaded, pollTimers, ticks, ioLoaded, socket, isConnected,
                   handlers, link, connects, subscribed, fallAlerts, alarmInterval, alarmTimers,
                   beepCount, alarmSeq, call, beepLog, notifPerm, permPrompt,
                   notifications, simulated, badge, sidebarBadge, kpiAlerts, activity,
                   netVars>>

\* a timer of toast i of the legacy page that is due runs its callback
LegacyToastTimer(i) ==
    /\ page = "legacy"
    /\ i \in 1..Len(toasts)
    /\ toasts[i].age \in Dues(toasts[i])
    /\ toasts' = [toasts EXCEPT ![i] = LegacyRunTimer(@)]
    /\ UNCHANGED <<cgVars, puVars, apiVars, stopCalls, btnVars, toastClicks, page, loaded, pollTimers, ticks, ioLoaded, socket, isConnected,
                   handlers, link, connects, subscribed, fallAlerts, alarmInterval, alarmTimers,
                   beepCount, alarmSeq, call, beepLog, notifPerm, permPrompt,
                   notifications, simulated, badge, sidebarBadge, kpiAlerts, activity,
                   netVars>>

\* ------------------------------------------------------- API modules
NoError == [name |-> "none", status |-> 0]

\* response.json(): the object a body parses to
ParseJSON(body) == [success |-> body = "success"]

Return(v) == [kind |-> "return", value |-> {v}, error |-> NoError, logged |-> FALSE]

\* the catch block of _fetch: console.error, then throw error
Throw(e) == [kind |-> "throw", value |-> {}, error |-> e, logged |-> TRUE]

\* _fetch that takes every status up to 300 for a success
_fetchOkTo300(net) ==
    IF net.kind = "netfail"
    THEN Throw([name |-> "TypeError", status |-> 0])
    ELSE IF ~(net.status >= 200 /\ net.status <= 300)
    THEN Throw([name |-> "Error", status |-> net.status])
    ELSE IF net.body = "invalid"
    THEN Throw([name |-> "SyntaxError", status |-> 0])
    ELSE Return(ParseJSON(net.body))

\* CaregiverAPI._fetch, EmergencyAPI._fetch, PrimaryUserAPI._fetch (the same code):
\* fetch rejects, or the status is not ok, or response.json() rejects, or the
\* parsed body is returned
_fetch(net) ==
    IF net.kind = "netfail"
    THEN Throw([name |-> "TypeError", status |-> 0])
    ELSE IF ~ResponseOk(net.status)
    THEN Throw([name |-> "Error", status |-> net.status])
    ELSE IF net.body = "invalid"
    THEN Throw([name |-> "SyntaxError", status |-> 0])
    ELSE Return(ParseJSON(net.body))

ApiModules == {"CaregiverAPI", "EmergencyAPI", "PrimaryUserAPI"}

\* one call of an API method, which awaits _fetch and hands on what it gives
ApiCall(api, net) ==
    /\ page = "api"
    /\ fetchCalls < MaxCalls
    /\ fetchCalls' = fetchCalls + 1
    /\ fetchApi' = api
    /\ fetchNet' = net
    /\ fetchResult' = _fetch(net)
    /\ errorsLogged' = IF _fetch(net).logged THEN errorsLogged + 1 ELSE errorsLogged
    /\ UNCHANGED <<page, loaded, pollTimers, ticks, dashVars, netVars, cgVars, puVars>>

\* how a load method ends on what its API call gave: the catch block, the
\* if (result.success) branch, or neither
Outcome(res) ==
    IF res.kind = "throw" THEN "throw"
    ELSE IF \E v \in res.value : v.success THEN "success"
    ELSE "nosuccess"

\* ------------------------------------------------------- caregiver UI
\* the alerts the server knows, and the data-filter values of the filter buttons
AlertIds == {"a1", "a2"}
Filters == {"all", "critical"}

\* what result.alerts can hold of each alert: not listed, read or unread
AlertLists == [AlertIds -> {"none", "read", "unread"}]

\* loadAlerts: the severity argument of getAlerts
Severity(filter) == IF filter = "all" THEN Null ELSE filter

\* new CaregiverUI(): init() loads the four categories and starts polling
CaregiverLoaded ==
    /\ page = "caregiver"
    /\ ~loaded
    /\ loaded' = TRUE
    /\ currentFilter' = "all"
    /\ IssueAll({"status", "location", "battery", "alerts"})
    /\ alertsSent' = Append(alertsSent, Severity("all"))
    /\ pollTimers' = pollTimers \cup CaregiverPolls
    /\ UNCHANGED <<page, ticks, dashVars, settled, display, puVars, apiVars,
                   alertItems, clickHandlers, clickLog, markSent, filterClicks>>

\* startPolling: the interval of category n fires and calls its load method
CaregiverTick(n) ==
    /\ page = "caregiver"
    /\ n \in CaregiverPolls
    /\ n \in pollTimers
    /\ ticks[n] < MaxTicks
    /\ ticks' = [ticks EXCEPT ![n] = @ + 1]
    /\ IssueAll({n})
    /\ alertsSent' = IF n = "alerts"
                     THEN Append(alertsSent, Severity(currentFilter))
                     ELSE alertsSent
    /\ UNCHANGED <<page, loaded, pollTimers, dashVars, settled, display,
                   currentFilter, alertItems, clickHandlers, clickLog, markSent,
                   filterClicks, puVars, apiVars>>

\* a load method after its await: show the payload on success, else nothing
LoadSettle(cat, r, net) ==
    /\ page = "caregiver"
    /\ r \in inflight
    /\ r.cat = cat
    /\ inflight' = inflight \ {r}
    /\ settled' = [cat |-> cat, seq |-> r.seq, outcome |-> Outcome(_fetch(net))]
    /\ display' = IF Outcome(_fetch(net)) = "success"
                  THEN [display EXCEPT ![cat] = Append(@, r.seq)]
                  ELSE display
    /\ UNCHANGED <<page, loaded, pollTimers, ticks, dashVars, issued,
                   currentFilter, clickLog, markSent, alertsSent, filterClicks,
                   puVars, apiVars>>

\* loadPatientStatus that drops a response older than the one on display
loadPatientStatusSequenced(r, net) ==
    /\ page = "caregiver"
    /\ r \in inflight
    /\ r.cat = "status"
    /\ inflight' = inflight \ {r}
    /\ settled' = [cat |-> "status", seq |-> r.seq, outcome |-> Outcome(_fetch(net))]
    /\ display' = IF /\ Outcome(_fetch(net)) = "success"
                     /\ \A i \in 1..Len(display["status"]) : display["status"][i] < r.seq
                  THEN [display EXCEPT !["status"] = Append(@, r.seq)]
                  ELSE display
    /\ UNCHANGED <<page, loaded, pollTimers, ticks, dashVars, issued, cgVars,
                   puVars, apiVars>>

\* loadPatientStatus that calls itself again from its catch block
loadPatientStatusRetry(r, net) ==
    /\ page = "caregiver"
    /\ r \in inflight
    /\ r.cat = "status"
    /\ settled' = [cat |-> "status", seq |-> r.seq, outcome |-> Outcome(_fetch(net))]
    /\ display' = IF Outcome(_fetch(net)) = "success"
                  THEN [display EXCEPT !["status"] = Append(@, r.seq)]
                  ELSE display
    /\ IF Outcome(_fetch(net)) = "throw" /\ issued["status"] <= MaxTicks
       THEN /\ inflight' = (inflight \ {r}) \cup
                              {[cat |-> "status", seq |-> issued["status"] + 1]}
            /\ issued' = [issued EXCEPT !["status"] = @ + 1]
       ELSE /\ inflight' = inflight \ {r}
            /\ issued' = issued
    /\ UNCHANGED <<page, loaded, pollTimers, ticks, dashVars, cgVars, puVars, apiVars>>

\* loadPatientStatus after its await
loadPatientStatus(r, net) ==
    /\ LoadSettle("status", r, net)
    /\ UNCHANGED <<alertItems, clickHandlers>>

\* loadLocation after its await
loadLocation(r, net) ==
    /\ LoadSettle("location", r, net)
    /\ UNCHANGED <<alertItems, clickHandlers>>

\* loadBattery after its await
loadBattery(r, net) ==
    /\ LoadSettle("battery", r, net)
    /\ UNCHANGED <<alertItems, clickHandlers>>

\* renderAlerts: the container's innerHTML is rebuilt, which drops the old
\* items with their listeners; a listener goes on each item with data-unread
renderAlerts(alerts) ==
    /\ alertItems' = alerts
    /\ clickHandlers' = {a \in AlertIds : alerts[a] = "unread"}

\* loadAlerts after its await; alerts is result.alerts
loadAlerts(r, net) ==
    /\ LoadSettle("alerts", r, net)
    /\ IF Outcome(_fetch(net)) = "success"
       THEN \E alerts \in AlertLists : renderAlerts(alerts)
       ELSE UNCHANGED <<alertItems, clickHandlers>>

\* a click on a .alert-filter button: set the filter and load the alerts
FilterClick(f) ==
    /\ page = "caregiver"
    /\ loaded
    /\ Len(clickLog) + filterClicks < MaxAlertClicks
    /\ filterClicks' = filterClicks + 1
    /\ currentFilter' = f
    /\ IssueAll({"alerts"})
    /\ alertsSent' = Append(alertsSent, Severity(f))
    /\ UNCHANGED <<page, loaded, pollTimers, ticks, dashVars, settled, display,
                   alertItems, clickHandlers, clickLog, markSent, puVars, apiVars>>

\* a click on the rendered item of alert a: its listener, when it has one,
\* runs markAlertRead up to the await
AlertClick(a) ==
    /\ page = "caregiver"
    /\ alertItems[a] # "none"
    /\ Len(clickLog) + filterClicks < MaxAlertClicks
    /\ clickLog' = Append(clickLog, [id |-> a, unread |-> alertItems[a] = "unread"])
    /\ IF a \in clickHandlers
       THEN /\ markSent' = Append(markSent, a)
            /\ IssueAll({"markRead"})
       ELSE UNCHANGED <<markSent, inflight, issued>>
    /\ UNCHANGED <<page, loaded, pollTimers, ticks, dashVars, settled, display,
                   currentFilter, alertItems, clickHandlers, alertsSent,
                   filterClicks, puVars, apiVars>>

\* markAlertRead that reloads the list whatever the response was
markAlertReadAlwaysReload(r, net) ==
    /\ page = "caregiver"
    /\ r \in inflight
    /\ r.cat = "markRead"
    /\ settled' = [cat |-> "markRead", seq |-> r.seq, outcome |-> Outcome(_fetch(net))]
    /\ inflight' = (inflight \ {r}) \cup {[cat |-> "alerts", seq |-> issued["alerts"] + 1]}
    /\ issued' = [issued EXCEPT !["alerts"] = @ + 1]
    /\ alertsSent' = Append(alertsSent, Severity(currentFilter))
    /\ UNCHANGED <<page, loaded, pollTimers, ticks, dashVars, display,
                   currentFilter, alertItems, clickHandlers, clickLog, markSent,
                   filterClicks, puVars, apiVars>>

\* markAlertRead after its await: on success true, loadAlerts up to its await
markAlertRead(r, net) ==
    /\ page = "caregiver"
    /\ r \in inflight
    /\ r.cat = "markRead"
    /\ settled' = [cat |-> "markRead", seq |-> r.seq, outcome |-> Outcome(_fetch(net))]
    /\ IF Outcome(_fetch(net)) = "success"
       THEN /\ inflight' = (inflight \ {r}) \cup
                              {[cat |-> "alerts", seq |-> issued["alerts"] + 1]}
            /\ issued' = [issued EXCEPT !["alerts"] = @ + 1]
            /\ alertsSent' = Append(alertsSent, Severity(currentFilter))
       ELSE /\ inflight' = inflight \ {r}
            /\ UNCHANGED <<issued, alertsSent>>
    /\ UNCHANGED <<page, loaded, pollTimers, ticks, dashVars, display,
                   currentFilter, alertItems, clickHandlers, clickLog, markSent,
                   filterClicks, puVars, apiVars>>

\* ----------------------------------------------------- primary-user UI
\* new PrimaryUserUI(): init() loads input mode, medication and follow mode
PrimaryLoaded ==
    /\ page = "primary"
    /\ ~loaded
    /\ loaded' = TRUE
    /\ currentInputMode' = "touch"
    /\ followModeActive' = FALSE
    /\ IssueAll({"inputMode", "medication", "follow"})
    /\ pollTimers' = pollTimers \cup PrimaryPolls
    /\ UNCHANGED <<page, ticks, dashVars, settled, display, cgVars, followModeUI,
                   toggleSent, highlighted, modeSent, apiVars>>

\* startPolling: the interval of category n fires
PrimaryTick(n) ==
    /\ page = "primary"
    /\ n \in PrimaryPolls
    /\ n \in pollTimers
    /\ ticks[n] < MaxTicks
    /\ ticks' = [ticks EXCEPT ![n] = @ + 1]
    /\ IssueAll({n})
    /\ UNCHANGED <<page, loaded, pollTimers, dashVars, settled, display, cgVars,
                   puVars, apiVars>>

\* loadFollowMode after its await; active is result.status.is_active
loadFollowMode(r, net) ==
    /\ page = "primary"
    /\ r \in inflight
    /\ r.cat = "follow"
    /\ inflight' = inflight \ {r}
    /\ settled' = [cat |-> "follow", seq |-> r.seq, outcome |-> Outcome(_fetch(net))]
    /\ IF Outcome(_fetch(net)) = "success"
       THEN \E active \in BOOLEAN :
               /\ followModeActive' = active
               /\ followModeUI' = active
       ELSE UNCHANGED <<followModeActive, followModeUI>>
    /\ UNCHANGED <<page, loaded, pollTimers, ticks, dashVars, issued, display,
                   cgVars, toggleSent, inputVars, apiVars>>

\* PrimaryUserAPI.toggleFollowMode: the body JSON.stringify builds
toggleFollowModeBody(activate, personId) ==
    [activate |-> activate, person_id |-> personId]

\* the click handler that redraws the toggle before the response is in
toggleFollowModeOptimistic ==
    /\ page = "primary"
    /\ loaded
    /\ Len(toggleSent) < MaxClicks
    /\ LET activate == ~followModeActive
           personId == IF activate THEN "primary_caregiver" ELSE Null
       IN /\ toggleSent' = Append(toggleSent, toggleFollowModeBody(activate, personId))
          /\ followModeActive' = activate
          /\ followModeUI' = activate
    /\ IssueAll({"toggle"})
    /\ UNCHANGED <<page, loaded, pollTimers, ticks, dashVars, settled, display,
                   cgVars, inputVars, apiVars>>

\* the click handler that always names the caregiver as the person to follow
toggleFollowModeAlwaysPerson ==
    /\ page = "primary"
    /\ loaded
    /\ Len(toggleSent) < MaxClicks
    /\ LET activate == ~followModeActive
           personId == "primary_caregiver"
       IN toggleSent' = Append(toggleSent, toggleFollowModeBody(activate, personId))
    /\ IssueAll({"toggle"})
    /\ UNCHANGED <<page, loaded, pollTimers, ticks, dashVars, settled, display,
                   cgVars, followModeActive, followModeUI, inputVars, apiVars>>

\* toggleFollowMode up to its await (the click on #followModeToggle)
toggleFollowMode ==
    /\ page = "primary"
    /\ loaded
    /\ Len(toggleSent) < MaxClicks
    /\ LET activate == ~followModeActive
           personId == IF activate THEN "primary_caregiver" ELSE Null
       IN toggleSent' = Append(toggleSent, toggleFollowModeBody(activate, personId))
    /\ IssueAll({"toggle"})
    /\ UNCHANGED <<page, loaded, pollTimers, ticks, dashVars, settled, display,
                   cgVars, followModeActive, followModeUI, inputVars, apiVars>>

\* toggleFollowMode after its await; activate is the value the click computed
toggleFollowModeResume(r, net) ==
    /\ page = "primary"
    /\ r \in inflight
    /\ r.cat = "toggle"
    /\ inflight' = inflight \ {r}
    /\ settled' = [cat |-> "toggle", seq |-> r.seq, outcome |-> Outcome(_fetch(net))]
    /\ IF Outcome(_fetch(net)) = "success"
       THEN /\ followModeActive' = toggleSent[r.seq].activate
            /\ followModeUI' = toggleSent[r.seq].activate
       ELSE UNCHANGED <<followModeActive, followModeUI>>
    /\ UNCHANGED <<page, loaded, pollTimers, ticks, dashVars, issued, display,
                   cgVars, toggleSent, inputVars, apiVars>>

\* the data-mode values of the .input-mode-btn buttons
InputModes == {"spoken", "sign_language", "touch"}

\* result.active_mode of a getInputMode response: a mode, or no such field
ActiveModes == InputModes \cup {Null}

\* updateInputModeUI: the buttons left drawn as active
updateInputModeUI(activeMode) == {mode \in InputModes : mode = activeMode}

\* how the awaited request r ends, and the requests of cs issued after it
SettleThenIssue(r, net, cs) ==
    /\ r \in inflight
    /\ settled' = [cat |-> r.cat, seq |-> r.seq, outcome |-> Outcome(_fetch(net))]
    /\ inflight' = (inflight \ {r}) \cup {[cat |-> c, seq |-> issued[c] + 1] : c \in cs}
    /\ issued' = [c \in Cats |-> IF c \in cs THEN issued[c] + 1 ELSE issued[c]]

\* loadInputMode after its await
loadInputMode(r, net) ==
    /\ page = "primary"
    /\ r.cat = "inputMode"
    /\ SettleThenIssue(r, net, {})
    /\ IF Outcome(_fetch(net)) = "success"
       THEN \E active \in ActiveModes :
               /\ currentInputMode' = active
               /\ highlighted' = updateInputModeUI(active)
       ELSE UNCHANGED <<currentInputMode, highlighted>>
    /\ UNCHANGED <<page, loaded, pollTimers, ticks, dashVars, display, cgVars,
                   followModeActive, followModeUI, toggleSent, modeSent, apiVars>>

\* setInputMode up to its await (the click on an .input-mode-btn button)
setInputMode(mode) ==
    /\ page = "primary"
    /\ loaded
    /\ Len(modeSent) < MaxModeClicks
    /\ modeSent' = Append(modeSent, mode)
    /\ IssueAll({"setMode"})
    /\ UNCHANGED <<page, loaded, pollTimers, ticks, dashVars, settled, display,
                   cgVars, followModeActive, followModeUI, toggleSent,
                   currentInputMode, highlighted, apiVars>>

\* setInputMode that takes every response for a success
setInputModeResumeNoCheck(r, net) ==
    /\ page = "primary"
    /\ r.cat = "setMode"
    /\ IF Outcome(_fetch(net)) # "throw"
       THEN /\ currentInputMode' = modeSent[r.seq]
            /\ highlighted' = updateInputModeUI(modeSent[r.seq])
            /\ SettleThenIssue(r, net, {"sendFeedback"})
       ELSE /\ UNCHANGED <<currentInputMode, highlighted>>
            /\ SettleThenIssue(r, net, {})
    /\ UNCHANGED <<page, loaded, pollTimers, ticks, dashVars, display, cgVars,
                   followModeActive, followModeUI, toggleSent, modeSent, apiVars>>

\* setInputMode after its first await, up to await sendVisualFeedback or to
\* its end; mode is the argument of the call
setInputModeResume(r, net) ==
    /\ page = "primary"
    /\ r.cat = "setMode"
    /\ IF Outcome(_fetch(net)) = "success"
       THEN /\ currentInputMode' = modeSent[r.seq]
            /\ highlighted' = updateInputModeUI(modeSent[r.seq])
            /\ SettleThenIssue(r, net, {"sendFeedback"})
       ELSE /\ UNCHANGED <<currentInputMode, highlighted>>
            /\ SettleThenIssue(r, net, {})
    /\ UNCHANGED <<page, loaded, pollTimers, ticks, dashVars, display, cgVars,
                   followModeActive, followModeUI, toggleSent, modeSent, apiVars>>

\* setInputMode after await sendVisualFeedback: loadVisualFeedback is called
\* unless the request threw
setInputModeFeedback(r, net) ==
    /\ page = "primary"
    /\ r.cat = "sendFeedback"
    /\ IF Outcome(_fetch(net)) = "throw"
       THEN SettleThenIssue(r, net, {})
       ELSE SettleThenIssue(r, net, {"feedback"})
    /\ UNCHANGED <<page, loaded, pollTimers, ticks, dashVars, display, cgVars,
                   puVars, apiVars>>

\* loadVisualFeedback after its await; the queue of a success may be empty
loadVisualFeedback(r, net) ==
    /\ page = "primary"
    /\ r.cat = "feedback"
    /\ SettleThenIssue(r, net, {})
    /\ \E nonEmpty \in BOOLEAN :
          display' = IF Outcome(_fetch(net)) = "success" /\ nonEmpty
                     THEN [display EXCEPT !["feedback"] = Append(@, r.seq)]
                     ELSE display
    /\ UNCHANGED <<page, loaded, pollTimers, ticks, dashVars, cgVars, puVars, apiVars>>

\* the counts and the activity list as the page's template renders them
InitTemplate ==
    /\ badge = [b \in NotificationBadges |-> Num(0)]
    /\ sidebarBadge = Num(0)
    /\ kpiAlerts = Num(0)
    /\ activity = <<>>

\* the scripts' state before any handler has run
InitScripts ==
    /\ loaded = FALSE
    /\ pollTimers = {}
    /\ ticks = [n \in PollNames |-> 0]
    /\ ioLoaded \in BOOLEAN
    /\ socket = Null
    /\ isConnected = FALSE
    /\ handlers = {}
    /\ link = "down"
    /\ connects = 0
    /\ subscribed = 0
    /\ fallAlerts = 0
    /\ alarmInterval = 0
    /\ alarmTimers = {}
    /\ beepCount = <<>>
    /\ alarmSeq = 0
    /\ call = [id |-> 0, state |-> "none", cleared |-> FALSE]
    /\ beepLog = <<>>
    /\ notifPerm \in {"default", "granted", "denied", "unsupported"}
    /\ notifications = 0
    /\ permPrompt = FALSE
    /\ simulated = 0
    /\ stopCalls = 0
    /\ refreshBtn = [disabled |-> FALSE, content |-> "original"]
    /\ refreshCalls = {}
    /\ refreshClicks = 0
    /\ toasts = <<>>
    /\ toastClicks = 0
    /\ inflight = {}
    /\ issued = [c \in Cats |-> 0]
    /\ settled = [cat |-> "none", seq |-> 0, outcome |-> "none"]
    /\ display = [c \in Cats |-> <<>>]
    /\ currentFilter = "all"
    /\ alertItems = [a \in AlertIds |-> "none"]
    /\ clickHandlers = {}
    /\ clickLog = <<>>
    /\ markSent = <<>>
    /\ alertsSent = <<>>
    /\ filterClicks = 0
    /\ followModeActive = FALSE
    /\ followModeUI = FALSE
    /\ toggleSent = <<>>
    /\ currentInputMode = "touch"
    /\ highlighted = {}
    /\ modeSent = <<>>
    /\ fetchCalls = 0
    /\ fetchApi = "none"
    /\ fetchNet = [kind |-> "none", status |-> 0, body |-> "invalid"]
    /\ fetchResult = [kind |-> "none", value |-> {}, error |-> NoError, logged |-> FALSE]
    /\ errorsLogged = 0

InitCommon ==
    /\ InitScripts
    /\ InitTemplate

InitDashboard ==
    /\ page = "dashboard"
    /\ InitCommon

\* The dashboard with its timers, buttons and socket events; no response
\* arrives while these run.
NextDashboard ==
    \/ DOMContentLoaded
    \/ SocketConnect
    \/ SocketDisconnect
    \/ HandleFallAlert
    \/ \E t \in 1..MaxAlarms + 1 : AlarmTick(t)
    \/ stopAlarm
    \/ AnswerPermission
    \/ simulateAlert
    \/ StatsTick
    \/ UpdateTimeTick

SpecDashboard == InitDashboard /\ [][NextDashboard]_vars

\* The dashboard's alert feed: fall alerts and simulated alerts on a page whose
\* template rendered any counts and up to five activity items.
Texts == {Num(0), Num(7), NonNumeric}

TemplateTitles == <<"Earlier 1", "Earlier 2", "Earlier 3", "Earlier 4", "Earlier 5">>

\* the template's activity list of n items, the newest (highest number) first
TemplateActivity(n) == [i \in 1..n |-> TemplateTitles[n - i + 1]]

InitFeed ==
    /\ page = "dashboard"
    /\ InitScripts
    /\ ioLoaded
    /\ notifPerm = "default"
    /\ badge \in [NotificationBadges -> Texts]
    /\ sidebarBadge \in Texts
    /\ kpiAlerts \in Texts
    /\ \E n \in 0..MaxActivityItems : activity = TemplateActivity(n)

NextFeed ==
    \/ DOMContentLoaded
    \/ SocketConnect
    \/ SocketDisconnect
    \/ HandleFallAlert
    \/ simulateAlert

SpecFeed == InitFeed /\ [][NextFeed]_vars

\* The dashboard's polling with the network answering; the server pushes
\* nothing over the socket.
NextStats ==
    \/ DOMContentLoaded
    \/ StatsTick
    \/ UpdateTimeTick
    \/ \E r \in inflight, net \in NetOutcomes : loadDashboardStats(r, net)
    \/ \E r \in inflight, net \in NetOutcomes : loadChartData(r, net)

SpecStats == InitDashboard /\ [][NextStats]_vars

\* The dashboard's Refresh button with the network answering, on a page
\* without Socket.IO and before the 30-second interval fires.
InitRefresh ==
    /\ InitDashboard
    /\ ~ioLoaded
    /\ notifPerm = "default"

NextRefresh ==
    \/ DOMContentLoaded
    \/ refreshDashboard
    \/ \E r \in inflight, net \in NetOutcomes : refreshDashboardThen(r, net)
    \/ \E r \in inflight, net \in NetOutcomes : loadDashboardStats(r, net)
    \/ \E r \in inflight, net \in NetOutcomes : loadChartData(r, net)

SpecRefresh == InitRefresh /\ [][NextRefresh]_vars

\* The dashboard's toasts: those of Simulate Alert, clicked or left alone
\* while time passes.
NextToast ==
    \/ DOMContentLoaded
    \/ simulateAlert
    \/ \E i \in DOMAIN toasts : ToastClick(i)
    \/ \E i \in DOMAIN toasts : ToastTimer(i)
    \/ \E i \in DOMAIN toasts : ToastAdvance(i)

SpecToast == InitRefresh /\ [][NextToast]_vars

\* The same for the dashboard script of caregiver/api.js.
InitLegacy ==
    /\ page = "legacy"
    /\ InitCommon
    /\ ~ioLoaded
    /\ notifPerm = "default"

NextLegacyToast ==
    \/ LegacyDOMContentLoaded
    \/ LegacySimulateAlert
    \/ \E i \in DOMAIN toasts : LegacyToastClick(i)
    \/ \E i \in DOMAIN toasts : LegacyToastTimer(i)
    \/ \E i \in DOMAIN toasts : ToastAdvance(i)

SpecLegacyToast == InitLegacy /\ [][NextLegacyToast]_vars

\* The caregiver page while only the 10-second status interval fires.
InitCaregiver ==
    /\ page = "caregiver"
    /\ InitCommon

NextCaregiver ==
    \/ CaregiverLoaded
    \/ CaregiverTick("status")
    \/ \E r \in inflight, net \in NetOutcomes : loadPatientStatus(r, net)
    \/ \E r \in inflight, net \in NetOutcomes : loadLocation(r, net)
    \/ \E r \in inflight, net \in NetOutcomes : loadBattery(r, net)
    \/ \E r \in inflight, net \in NetOutcomes : loadAlerts(r, net)

SpecCaregiver == InitCaregiver /\ [][NextCaregiver]_vars

\* The caregiver page's alert list: its loads, the filter buttons, clicks on
\* the items and the mark-read requests; the other categories stay unanswered and no
\* interval fires.
NextAlerts ==
    \/ CaregiverLoaded
    \/ \E f \in Filters : FilterClick(f)
    \/ \E a \in AlertIds : AlertClick(a)
    \/ \E r \in inflight, net \in NetOutcomes : loadAlerts(r, net)
    \/ \E r \in inflight, net \in NetOutcomes : markAlertRead(r, net)

InitAlerts ==
    /\ InitCaregiver
    /\ ~ioLoaded
    /\ notifPerm = "default"

SpecAlerts == InitAlerts /\ [][NextAlerts]_vars

\* The primary-user page: the follow-mode toggle and its requests.
InitPrimary ==
    /\ page = "primary"
    /\ InitCommon

NextPrimary ==
    \/ PrimaryLoaded
    \/ toggleFollowMode
    \/ \E r \in inflight, net \in NetOutcomes : toggleFollowModeResume(r, net)
    \/ \E r \in inflight, net \in NetOutcomes : loadFollowMode(r, net)

SpecPrimary == InitPrimary /\ [][NextPrimary]_vars

\* The input-mode buttons of the primary-user page, the network answering.
InitInput ==
    /\ InitPrimary
    /\ ~ioLoaded
    /\ notifPerm = "default"

NextInput ==
    \/ PrimaryLoaded
    \/ \E mode \in InputModes : setInputMode(mode)
    \/ \E r \in inflight, net \in NetOutcomes : loadInputMode(r, net)
    \/ \E r \in inflight, net \in NetOutcomes : setInputModeResume(r, net)
    \/ \E r \in inflight, net \in NetOutcomes : setInputModeFeedback(r, net)
    \/ \E r \in inflight, net \in NetOutcomes : loadVisualFeedback(r, net)

SpecInput == InitInput /\ [][NextInput]_vars

\* The API modules alone: calls of _fetch on whatever the network hands back.
InitFetch ==
    /\ page = "api"
    /\ InitCommon

NextFetch ==
    \E api \in ApiModules, net \in NetOutcomes : ApiCall(api, net)

SpecFetch == InitFetch /\ [][NextFetch]_vars

\* Every page's interval timers, with the dashboard's alarm.
InitTimers ==
    /\ page \in {"dashboard", "caregiver", "primary"}
    /\ InitCommon

NextTimers ==
    \/ NextDashboard
    \/ CaregiverLoaded
    \/ \E n \in CaregiverPolls : CaregiverTick(n)
    \/ PrimaryLoaded
    \/ \E n \in PrimaryPolls : PrimaryTick(n)

SpecTimers == InitTimers /\ [][NextTimers]_vars

\* The polling of the dashboard and of the caregiver page, the network answering.
InitPolling ==
    /\ page \in {"dashboard", "caregiver"}
    /\ InitCommon

NextPolling ==
    \/ NextStats
    \/ NextCaregiver

SpecPolling == InitPolling /\ [][NextPolling]_vars

\* ---------------------------------------------------------------- claims
\* the frequencies of the beeps in beepLog that alarm id emitted
LogFreqs(id) ==
    LET FromId(e) == e[1] = id
        own == SelectSeq(beepLog, FromId)
    IN [i \in 1..Len(own) |-> own[i][2]]

\* n beeps, the first at 880 Hz, then 660 Hz and 880 Hz in turn
SirenPattern(n) == [i \in 1..n |-> IF i % 2 = 1 THEN 880 ELSE 660]

\* C1 as stated: every playAlertSound call that ran to its end with no later
\* playAlertSound or stopAlarm call has emitted exactly the 9 beeps 880, 660, 880, ...
C1_Original ==
    call.state \in {"finished", "failed"} => LogFreqs(call.id) = SirenPattern(9)

\* C1, amended: a playAlertSound call whose AudioContext was constructed emits
\* 880 Hz at once and one beep per tick, alternating 660 Hz and 880 Hz; while it
\* plays its interval is the active one; when it finishes it has emitted exactly
\* 9 beeps, the interval is cleared and alarmInterval is null; a call never
\* emits a 10th beep.
C1_NineBeeps ==
    /\ Len(beepLog) <= 9
    /\ call.state = "playing" =>
          /\ LogFreqs(call.id) = SirenPattern(Len(beepLog))
          /\ Len(beepLog) >= 1
          /\ alarmInterval = call.id
          /\ call.id \in alarmTimers
    /\ call.state = "finished" =>
          /\ LogFreqs(call.id) = SirenPattern(9)
          /\ alarmInterval = 0
          /\ call.id \notin alarmTimers

\* C1 witness: an alarm has run to its end
C1_Witness == call.state = "finished" /\ Len(beepLog) = 9

\* C2: at most one alarm interval is active, it is the one alarmInterval names,
\* and every beep since the last alarm started comes from that alarm
C2_SingleAlarmTimer ==
    /\ Cardinality(alarmTimers) <= 1
    /\ alarmTimers \subseteq {alarmInterval}
    /\ \A i \in 1..Len(beepLog) : beepLog[i][1] = beepLog[1][1]

\* C2 witness: a second alarm cleared the running interval of the first and
\* has gone on beeping
C2_Witness == call.cleared /\ call.state = "playing" /\ Len(beepLog) >= 3

\* C3: playAlertSound has run once per fall_alert event handled, and without
\* Socket.IO it has never run: no alarm call, no interval, no beep
C3_AlarmOnlyFromFallAlert ==
    /\ alarmSeq = fallAlerts
    /\ ~ioLoaded =>
          /\ alarmSeq = 0
          /\ alarmTimers = {}
          /\ alarmInterval = 0
          /\ beepLog = <<>>
          /\ call.state = "none"

\* C3 witness: without Socket.IO the page loaded, both intervals fired and
\* Simulate Alert was clicked
C3_Witness ==
    /\ ~ioLoaded
    /\ loaded
    /\ simulated >= 1
    /\ ticks["stats"] >= 1
    /\ ticks["updateTime"] >= 1

\* C4: without Socket.IO the socket stays null with no handler and isConnected
\* false, and the stats are requested once at page load and once per firing of
\* the 30-second interval, which stays active
C4_PollingWithoutSocket ==
    ~ioLoaded =>
        /\ socket = Null
        /\ handlers = {}
        /\ ~isConnected
        /\ issued["stats"] = (IF loaded THEN 1 ELSE 0) + ticks["stats"]
        /\ loaded => "stats" \in pollTimers

\* C4 witness: without Socket.IO a stats request failed and the interval
\* has fired since
C4_Witness ==
    /\ ~ioLoaded
    /\ settled.cat = "stats"
    /\ settled.outcome = "throw"
    /\ ticks["stats"] >= 1
    /\ issued["stats"] >= 2

\* C5: the click changes neither followModeActive nor the drawn toggle; the
\* response of a toggle request sets both to the value that request asked for
\* when it has success true, and leaves both as they are otherwise
C5_NoOptimisticUpdate ==
    [][/\ Len(toggleSent') > Len(toggleSent) =>
             /\ followModeActive' = followModeActive
             /\ followModeUI' = followModeUI
       /\ (settled' # settled /\ settled'.cat = "toggle") =>
             IF settled'.outcome = "success"
             THEN /\ followModeActive' = toggleSent[settled'.seq].activate
                  /\ followModeUI' = toggleSent[settled'.seq].activate
             ELSE /\ followModeActive' = followModeActive
                  /\ followModeUI' = followModeUI]_vars

\* C5 witness: a toggle request failed and the state is not the one it asked for
C5_Witness ==
    /\ settled.cat = "toggle"
    /\ settled.outcome # "success"
    /\ followModeActive # toggleSent[settled.seq].activate
    /\ followModeUI # toggleSent[settled.seq].activate

\* C6: each toggle request carries activate = not followModeActive as it was
\* when the click was handled, and person_id 'primary_caregiver' when
\* activating, null when deactivating
C6_ToggleRequestBody ==
    [][Len(toggleSent') > Len(toggleSent) =>
          LET body == toggleSent'[Len(toggleSent')]
          IN /\ body.activate = ~followModeActive
             /\ body.person_id = IF body.activate THEN "primary_caregiver" ELSE "null"]_vars

\* C6 witness: an activating and a deactivating request have been sent
C6_Witness ==
    /\ \E i \in 1..Len(toggleSent) : toggleSent[i].activate
    /\ \E i \in 1..Len(toggleSent) : ~toggleSent[i].activate

\* C7: whenever a response of a caregiver load resolves with success true its
\* payload goes on display, whatever was issued or shown before it
C7_LastResponseWins ==
    [][(/\ settled' # settled
        /\ settled'.cat \in CaregiverCats
        /\ settled'.outcome = "success") =>
             display'[settled'.cat] = Append(display[settled'.cat], settled'.seq)]_vars

\* C7 witness: both status polls resolved and the older payload is on display
C7_Witness ==
    /\ Len(display["status"]) >= 2
    /\ display["status"][Len(display["status"])] < display["status"][Len(display["status"]) - 1]
    /\ \A r \in inflight : r.cat # "status"

\* C8 as stated: no interval timer, polling or alarm, is ever cleared
C8_Original ==
    [][pollTimers \subseteq pollTimers' /\ alarmTimers \subseteq alarmTimers']_vars

\* C8, amended: the polling intervals (the dashboard's clock and stats refresh, the
\* caregiver's and the primary user's polls) are never cleared once started
C8_PollTimersNeverCleared ==
    [][pollTimers \subseteq pollTimers']_vars

\* C8 witness: on the caregiver page every polling interval has fired and is
\* still active
C8_Witness ==
    /\ page = "caregiver"
    /\ \A n \in CaregiverPolls : ticks[n] >= 1 /\ n \in pollTimers

\* C9 as stated: a 2xx response returns the parsed body, any other status
\* throws an error that carries the status alone, and every error is logged
C9_Original ==
    fetchCalls > 0 /\ fetchNet.kind = "response" =>
        IF fetchNet.status \in 200..299
        THEN /\ fetchResult.kind = "return"
             /\ fetchResult.value = {ParseJSON(fetchNet.body)}
        ELSE /\ fetchResult.kind = "throw"
             /\ fetchResult.value = {}
             /\ fetchResult.error = [name |-> "Error", status |-> fetchNet.status]
             /\ fetchResult.logged

\* C9, amended: a 2xx response whose body parses as JSON returns the parsed
\* body; a 2xx response whose body does not parse, a non-2xx response and a
\* network failure return no value, and the error is logged and rethrown; the
\* error of a non-2xx response carries the status alone
C9_FetchContract ==
    fetchCalls > 0 =>
        /\ (fetchNet.kind = "response" /\ fetchNet.status \in 200..299
              /\ fetchNet.body # "invalid") =>
                 /\ fetchResult.kind = "return"
                 /\ fetchResult.value = {ParseJSON(fetchNet.body)}
                 /\ ~fetchResult.logged
        /\ (fetchNet.kind = "response" /\ fetchNet.status \in 200..299
              /\ fetchNet.body = "invalid") =>
                 /\ fetchResult.kind = "throw"
                 /\ fetchResult.error.name = "SyntaxError"
        /\ (fetchNet.kind = "response" /\ fetchNet.status \notin 200..299) =>
                 /\ fetchResult.kind = "throw"
                 /\ fetchResult.error = [name |-> "Error", status |-> fetchNet.status]
        /\ fetchNet.kind = "netfail" =>
                 /\ fetchResult.kind = "throw"
                 /\ fetchResult.error.name = "TypeError"
        /\ fetchResult.kind = "throw" =>
                 /\ fetchResult.value = {}
                 /\ fetchResult.logged
                 /\ errorsLogged >= 1

\* C9 witness: a 404 whose body carried an envelope ended in the status-only error
C9_Witness ==
    /\ fetchNet.kind = "response"
    /\ fetchNet.status = 404
    /\ fetchNet.body = "failure"
    /\ fetchResult.kind = "throw"
    /\ fetchResult.error = [name |-> "Error", status |-> 404]

\* C10: a load that ends without success issues no request, and a request is
\* issued only by the page load or by a firing of a polling interval
C10_NoRetry ==
    [][/\ (settled' # settled /\ settled'.outcome # "success") =>
             /\ issued' = issued
             /\ inflight' \subseteq inflight
       /\ issued' # issued =>
             \/ ~loaded /\ loaded'
             \/ \E n \in PollNames : ticks'[n] = ticks[n] + 1]_vars

\* C10 witness: the first status request failed and the only later status
\* request is the one the interval issued
C10_Witness ==
    /\ page = "caregiver"
    /\ settled = [cat |-> "status", seq |-> 1, outcome |-> "throw"]
    /\ ticks["status"] = 1
    /\ issued["status"] = 2

\* C11: a click listener is on exactly the items rendered unread; a click on
\* an unread item POSTs mark-read for that alert's id and loads nothing; a click
\* on a read item issues no request; a mark-read response with success true
\* issues one getAlerts request with the current filter, and any other end of
\* the mark-read call issues nothing
C11_MarkReadThenReload ==
    [][/\ clickHandlers' = {a \in AlertIds : alertItems'[a] = "unread"}
       /\ Len(clickLog') > Len(clickLog) =>
             LET c == clickLog'[Len(clickLog')]
             IN IF c.unread
                THEN /\ markSent' = Append(markSent, c.id)
                     /\ issued' = [issued EXCEPT !["markRead"] = @ + 1]
                     /\ inflight' = inflight \cup
                            {[cat |-> "markRead", seq |-> issued["markRead"] + 1]}
                     /\ alertsSent' = alertsSent
                ELSE /\ markSent' = markSent
                     /\ issued' = issued
                     /\ inflight' = inflight
       /\ (settled' # settled /\ settled'.cat = "markRead") =>
             /\ markSent' = markSent
             /\ IF settled'.outcome = "success"
                THEN /\ issued' = [issued EXCEPT !["alerts"] = @ + 1]
                     /\ alertsSent' = Append(alertsSent, Severity(currentFilter))
                ELSE /\ issued' = issued
                     /\ alertsSent' = alertsSent
                     /\ inflight' \subseteq inflight]_vars

\* C11 witness: a read item was clicked and nothing was sent for it, and the
\* mark-read of an unread item succeeded and reloaded the list
C11_Witness ==
    /\ \E i \in 1..Len(clickLog) : ~clickLog[i].unread
    /\ Len(markSent) = 1
    /\ issued["markRead"] = 1
    /\ settled.cat = "markRead"
    /\ settled.outcome = "success"
    /\ issued["alerts"] = 2
    /\ Len(alertsSent) = 2

\* C12: a click on Refresh disables the button and shows the spinner; the
\* button is disabled exactly while a refreshDashboard call waits for its
\* stats request, which is then in flight; when that request settles, however
\* it ends, the button is enabled with the content it had before the click
C12_RefreshButtonRestored ==
    /\ [](/\ refreshBtn.disabled =>
               /\ refreshBtn.content = "spinner"
               /\ \E c \in refreshCalls : [cat |-> "stats", seq |-> c.seq] \in inflight
          /\ ~refreshBtn.disabled =>
               /\ refreshBtn.content = "original"
               /\ refreshCalls = {})
    /\ [][/\ refreshClicks' > refreshClicks =>
                refreshBtn' = [disabled |-> TRUE, content |-> "spinner"]
          /\ (/\ settled' # settled
              /\ settled'.cat = "stats"
              /\ \E c \in refreshCalls : c.seq = settled'.seq) =>
                refreshBtn' = [disabled |-> FALSE, content |-> "original"]]_vars

\* C12 witness: the stats request of the second refresh failed, and the
\* button is enabled again
C12_Witness ==
    /\ refreshClicks = 2
    /\ settled.cat = "stats"
    /\ settled.outcome = "throw"
    /\ Len(toasts) = 4
    /\ ~refreshBtn.disabled

\* C13: a stopAlarm call leaves alarmInterval null with no interval active and
\* starts no beep; while alarmInterval is null no beep is started except by a
\* playAlertSound call; a stopAlarm call made while alarmInterval is null
\* changes nothing
C13_StopAlarm ==
    [][/\ stopCalls' > stopCalls =>
             /\ alarmInterval' = 0
             /\ alarmTimers' = {}
             /\ beepLog' = beepLog
             /\ alarmSeq' = alarmSeq
             /\ alarmInterval = 0 =>
                   /\ call' = call
                   /\ beepCount' = beepCount
                   /\ alarmTimers' = alarmTimers
                   /\ <<notifications, permPrompt, badge, sidebarBadge, kpiAlerts,
                        activity, toasts, isConnected, pollTimers>>' =
                      <<notifications, permPrompt, badge, sidebarBadge, kpiAlerts,
                        activity, toasts, isConnected, pollTimers>>
       /\ (alarmInterval = 0 /\ alarmSeq' = alarmSeq) => beepLog' = beepLog]_vars

\* C13 witness: an alarm was stopped between two of its beeps
C13_Witness ==
    /\ stopCalls = 1
    /\ call.state = "stopped"
    /\ Len(beepLog) \in 2..8
    /\ alarmInterval = 0

\* C14 as stated: every playAlertSound call made while Notification.permission
\* is 'granted' creates a notification; a call made while it is 'default'
\* requests permission and creates none
C14_NotificationOnEveryAlarm ==
    [][alarmSeq' = alarmSeq + 1 =>
          /\ notifPerm = "granted" => notifications' = notifications + 1
          /\ notifPerm = "default" =>
                /\ permPrompt'
                /\ notifications' = notifications]_vars

\* C15: in main.js no removeChild call fails; a toast is removed at most once,
\* by a click timer or by the second auto-remove timer; once its timers have
\* all run it has been removed; and a toast never clicked stays on screen
\* until it is removed at 4300 ms
C15_ToastRemovedOnce ==
    \A i \in 1..Len(toasts) :
       LET t == toasts[i]
       IN /\ t.failed = 0
          /\ t.removed <= 1
          /\ (t.removed = 1) = ~t.inContainer
          /\ t.removed = 1 => t.removedBy \in {"click", "remove"}
          /\ t.timers = <<>> => t.removed = 1
          /\ t.clicks = 0 =>
                /\ t.age <= 4300
                /\ t.age < 4300 => t.inContainer
                /\ t.removed = 1 => t.removedAt = 4300 /\ t.removedBy = "remove"

\* C15 witness: a toast was clicked twice around its auto-remove timer, a
\* click timer removed it after that timer had run, and every timer is done
C15_Witness ==
    \E i \in 1..Len(toasts) :
       /\ toasts[i].clicks = 2
       /\ toasts[i].timers = <<>>
       /\ toasts[i].removed = 1
       /\ toasts[i].removedBy = "click"
       /\ toasts[i].removedAt > 4000

\* C16 as stated: in the legacy showToast no removeChild call is made on a
\* toast that has left the container
C16_NoRemoveOfRemovedToast ==
    \A i \in 1..Len(toasts) : toasts[i].failed = 0

Count(text) == IF text.kind = "number" THEN text.val ELSE 0

\* C18: a handled fall_alert event leaves every notification badge, the
\* sidebar badge and the alerts KPI card showing the number one above the
\* count they showed, and puts exactly one 'Fall Detected' item first in the
\* activity list
C18_FallAlertCounts ==
    [][fallAlerts' = fallAlerts + 1 =>
          /\ \A b \in NotificationBadges : badge'[b] = Num(Count(badge[b]) + 1)
          /\ sidebarBadge' = Num(Count(sidebarBadge) + 1)
          /\ kpiAlerts' = Num(Count(kpiAlerts) + 1)
          /\ Head(activity') = "Fall Detected"
          /\ Tail(activity') = SubSeq(activity, 1, Len(activity') - 1)
          /\ Len(activity') \in {Len(activity) + 1, 5}]_vars

\* C18 witness: two fall alerts on a page whose sidebar badge showed no number
\* and whose other counts showed 7
C18_Witness ==
    /\ fallAlerts = 2
    /\ simulated = 0
    /\ sidebarBadge = Num(2)
    /\ kpiAlerts = Num(9)
    /\ \A b \in NotificationBadges : badge[b] = Num(9)
    /\ activity = <<"Fall Detected", "Fall Detected">>

\* C19: isConnected is true exactly when the last connection event was a
\* connect, subscribe_alerts has been emitted once per connect event, and
\* each connect event emits it once
C19_ConnectedFlag ==
    /\ [](/\ isConnected = (link = "up")
          /\ subscribed = connects)
    /\ [][connects' > connects =>
             /\ isConnected'
             /\ subscribed' = subscribed + 1]_vars

\* C19 witness: the socket reconnected and was disconnected again
C19_Witness ==
    /\ connects = 2
    /\ subscribed = 2
    /\ link = "down"
    /\ ~isConnected

\* C20: currentInputMode and the highlighted input-mode button change only in
\* the step that handles a getInputMode or setInputMode response whose success
\* is true; a setInputMode response whose success is false, and a setInputMode
\* request that throws, leave both as they were
C20_InputModeOnSuccessOnly ==
    [][/\ (currentInputMode' # currentInputMode \/ highlighted' # highlighted) =>
             /\ settled' # settled
             /\ settled'.cat \in {"inputMode", "setMode"}
             /\ settled'.outcome = "success"
       /\ (/\ settled' # settled
           /\ settled'.cat = "setMode"
           /\ settled'.outcome \in {"nosuccess", "throw"}) =>
             /\ currentInputMode' = currentInputMode
             /\ highlighted' = highlighted]_vars

\* C20 witness: 'spoken' was set with success, then the request for
\* 'sign_language' threw, and 'spoken' is still the mode and the button
C20_Witness ==
    /\ modeSent = <<"spoken", "sign_language">>
    /\ settled = [cat |-> "setMode", seq |-> 2, outcome |-> "throw"]
    /\ currentInputMode = "spoken"
    /\ highlighted = {"spoken"}
====
